---------------------------- MODULE Spec2Model ----------------------------
(***************************************************************************)
(* Aperture photometry as the tutorial notebooks run it: an image (data,  *)
(* error, bad-pixel mask), an aperture object, and the calls              *)
(* aperture.to_mask(...) and aperture_photometry(...) of photutils.       *)
(*                                                                         *)
(* Lengths are integers in units of 1/Scale pixel.  Pixel i covers        *)
(* [i - 1/2, i + 1/2] (its centre is the integer i), as in photutils.     *)
(* A weight is a numerator over the mask's denominator `den` (1 for the   *)
(* center method, subpixels^2 for the subpixel method), so that a         *)
(* fractional overlap k/n^2 is kept exactly.  The 'exact' method's        *)
(* weights (circle-pixel intersection areas) are transcendental numbers   *)
(* and have no integer representation: the model computes the 'center'    *)
(* and 'subpixel' masks.                                                   *)
(***************************************************************************)
EXTENDS Integers, Sequences, FiniteSets, TLC

\* ------------------------------------------------------------- bounds
\* The image is ImgSize x ImgSize pixels, indexed 0 .. ImgSize-1.
ImgSize == 3
\* The subpixels keyword ranges over 1 .. MaxSubpixels.
MaxSubpixels == 3
\* Units per pixel of every length (positions to one decimal).
Scale == 10
\* The value the notebook writes into the bad pixel: data2[y, x] = 100.0
BadPixelValue == 100
Pixels == (0 .. ImgSize - 1) \X (0 .. ImgSize - 1)

\* The overlap methods the model computes (method='exact' is left out).
Methods == {"center", "subpixel"}


Max(a, b) == IF a >= b THEN a ELSE b
Min(a, b) == IF a <= b THEN a ELSE b
Abs(a) == IF a >= 0 THEN a ELSE -a

\* floor(a / b) and ceil(a / b) for b > 0 (numpy floor, ceil)
Floor(a, b) == a \div b
Ceil(a, b) == -((-a) \div b)


\* --------------------------------------------------- aperture objects
\* An aperture: its shape, its centre (x, y), its outer size (a, b) and, for an
\* annulus, its inner size (a_in, b_in).  a, b are the radius of a circle
\* (a = b), the semi-axes of an ellipse, the full width and height of a
\* rectangle.  The rotation angle theta is 0 throughout.
NoAperture == [shape |-> "none", annulus |-> FALSE, x |-> 0, y |-> 0,
               a |-> 0, b |-> 0, a_in |-> 0, b_in |-> 0]

CircularAperture(position, r) ==
    [shape |-> "circle", annulus |-> FALSE, x |-> position[1], y |-> position[2],
     a |-> r, b |-> r, a_in |-> 0, b_in |-> 0]

CircularAnnulus(position, r_in, r_out) ==
    [shape |-> "circle", annulus |-> TRUE, x |-> position[1], y |-> position[2],
     a |-> r_out, b |-> r_out, a_in |-> r_in, b_in |-> r_in]

EllipticalAperture(position, a, b) ==
    [shape |-> "ellipse", annulus |-> FALSE, x |-> position[1], y |-> position[2],
     a |-> a, b |-> b, a_in |-> 0, b_in |-> 0]

EllipticalAnnulus(position, a_in, a_out, b_out, b_in) ==
    [shape |-> "ellipse", annulus |-> TRUE, x |-> position[1], y |-> position[2],
     a |-> a_out, b |-> b_out, a_in |-> a_in, b_in |-> b_in]

RectangularAperture(position, w, h) ==
    [shape |-> "rectangle", annulus |-> FALSE, x |-> position[1], y |-> position[2],
     a |-> w, b |-> h, a_in |-> 0, b_in |-> 0]

RectangularAnnulus(position, w_in, w_out, h_out, h_in) ==
    [shape |-> "rectangle", annulus |-> TRUE, x |-> position[1], y |-> position[2],
     a |-> w_out, b |-> h_out, a_in |-> w_in, b_in |-> h_in]

\* (mutant) an inner size equal to the outer size passes.
aperture_error_equal_allowed(ap) ==
    IF ap.a <= 0 \/ ap.b <= 0 \/ (ap.annulus /\ (ap.a_in <= 0 \/ ap.b_in <= 0))
    THEN "must be a positive scalar"
    ELSE IF ap.annulus /\ ~(ap.a >= ap.a_in /\ ap.b >= ap.b_in)
         THEN "outer must be greater than inner"
         ELSE "none"

\* The checks of the aperture classes' constructors on their shape
\* parameters: the ValueError raised, or none.
\*   r, a, b, w, h (and r_in, a_in, b_in, w_in, h_in) must be > 0
\*   an annulus: r_out > r_in, a_out > a_in, b_out > b_in, w_out > w_in,
\*               h_out > h_in
aperture_error(ap) ==
    IF ap.a <= 0 \/ ap.b <= 0 \/ (ap.annulus /\ (ap.a_in <= 0 \/ ap.b_in <= 0))
    THEN "must be a positive scalar"
    ELSE IF ap.annulus /\ ~(ap.a > ap.a_in /\ ap.b > ap.b_in)
         THEN "outer must be greater than inner"
         ELSE "none"

\* ------------------------------------------------------- bounding box
\* (mutant) the box edges are rounded without the half pixel.
from_float_no_half(xmin2, xmax2, ymin2, ymax2) ==
    [ixmin |-> Floor(xmin2, 2 * Scale),
     ixmax |-> Ceil(xmax2, 2 * Scale),
     iymin |-> Floor(ymin2, 2 * Scale),
     iymax |-> Ceil(ymax2, 2 * Scale)]

\* BoundingBox.from_float on doubled coordinates (a rectangle's half width may
\* be a half unit): ixmin = floor(xmin + 0.5), ixmax = ceil(xmax + 0.5), the
\* upper index exclusive.
from_float(xmin2, xmax2, ymin2, ymax2) ==
    [ixmin |-> Floor(xmin2 + Scale, 2 * Scale),
     ixmax |-> Ceil(xmax2 + Scale, 2 * Scale),
     iymin |-> Floor(ymin2 + Scale, 2 * Scale),
     iymax |-> Ceil(ymax2 + Scale, 2 * Scale)]

\* The doubled half extents of the aperture's outer shape along x and y.
xextent2(ap) == IF ap.shape = "rectangle" THEN ap.a ELSE 2 * ap.a
yextent2(ap) == IF ap.shape = "rectangle" THEN ap.b ELSE 2 * ap.b

\* aperture.bbox: the minimal box of whole pixels around the outer shape.
bbox(ap) ==
    from_float(2 * ap.x - xextent2(ap), 2 * ap.x + xextent2(ap),
               2 * ap.y - yextent2(ap), 2 * ap.y + yextent2(ap))

BBoxPixels(bb) == (bb.ixmin .. bb.ixmax - 1) \X (bb.iymin .. bb.iymax - 1)

\* ------------------------------------------------ pixel / shape overlap
\* (mutant) the subpixel is sampled at its lower edge, not at its centre.
SubCoord_edge(p, k, n) == 2 * n * p + Scale * (2 * k - n)

\* The coordinate of subpixel k (0 .. n-1) of the pixel whose centre is at p
\* (relative to the aperture centre, in 1/Scale pixel): p - 1/2 + (k + 1/2)/n
\* pixel, as a numerator over 2 * n * Scale.
SubCoord(p, k, n) == 2 * n * p + Scale * (2 * k + 1 - n)

\* (mutant) the inside tests with <= : a point on the boundary is inside.
InsideClosed(shape, X, Y, a, b, n) ==
    CASE shape = "circle" -> X * X + Y * Y <= (2 * n * a) * (2 * n * a)
      [] shape = "ellipse" -> X * X * b * b + Y * Y * a * a <= 4 * n * n * a * a * b * b
      [] shape = "rectangle" -> Abs(X) <= n * a /\ Abs(Y) <= n * b

\* The inside test of the subpixel loops, on numerators over 2 * n * Scale:
\*   circle     x*x + y*y < r*r
\*   ellipse    (x/rx)^2 + (y/ry)^2 < 1
\*   rectangle  fabs(x) < width/2 and fabs(y) < height/2
\* Each comparison is strict: a point on the boundary is not inside.
Inside(shape, X, Y, a, b, n) ==
    CASE shape = "circle" -> X * X + Y * Y < (2 * n * a) * (2 * n * a)
      [] shape = "ellipse" -> X * X * b * b + Y * Y * a * a < 4 * n * n * a * a * b * b
      [] shape = "rectangle" -> Abs(X) < n * a /\ Abs(Y) < n * b

\* *_overlap_single_subpixel: the number of the n x n subpixel centres of the
\* pixel at (px, py) that are inside the shape (the loops' frac before the
\* division by subpixels * subpixels).
RECURSIVE SubpixelRow(_, _, _, _, _, _, _, _)
SubpixelRow(shape, px, py, a, b, n, i, j) ==
    IF j >= n THEN 0
    ELSE (IF Inside(shape, SubCoord(px, i, n), SubCoord(py, j, n), a, b, n)
          THEN 1 ELSE 0)
         + SubpixelRow(shape, px, py, a, b, n, i, j + 1)

RECURSIVE SubpixelLoop(_, _, _, _, _, _, _)
SubpixelLoop(shape, px, py, a, b, n, i) ==
    IF i >= n THEN 0
    ELSE SubpixelRow(shape, px, py, a, b, n, i, 0)
         + SubpixelLoop(shape, px, py, a, b, n, i + 1)

overlap_single_subpixel(shape, px, py, a, b, n) ==
    SubpixelLoop(shape, px, py, a, b, n, 0)

\* circular_overlap_grid's shortcuts, with d the distance of the pixel centre
\* from the circle centre (D = d*d) and pixel_radius = sqrt(2)/2 pixel:
\*   d < r - pixel_radius   the pixel is well within the circle
\*   d < r + pixel_radius   the pixel is close to the border
\* squared twice to stay in the integers.
\* (mutant) the shortcut taken as soon as the pixel centre is inside the
\* circle, without the pixel_radius margin.
WellWithinNoMargin(D, r) == D < r * r

\* (T * T and U * U are compared through a division, a < T * T being
\* a \div T < T and U * U < a being U <= (a - 1) \div U for T, U > 0, to stay
\* in the range of the model checker's integers for radii of many pixels.)
WellWithin(D, r) ==
    LET T == 2 * r * r - 2 * D - Scale * Scale
    IN  T > 0 /\ (8 * D * Scale * Scale) \div T < T

CloseToBorder(D, r) ==
    LET U == 2 * D - 2 * r * r - Scale * Scale
    IN  \/ U < 0
        \/ U = 0 /\ r # 0
        \/ U > 0 /\ U <= (8 * r * r * Scale * Scale - 1) \div U

\* One element frac[j, i] of circular_overlap_grid, times n * n: the pixel
\* is looked at only inside the box pxmax > -r - 0.5, pxmin < r + 0.5.
circular_overlap(px, py, r, n) ==
    LET D == px * px + py * py
    IN  IF px > -r - Scale /\ px < r + Scale /\ py > -r - Scale /\ py < r + Scale
        THEN IF WellWithin(D, r) THEN n * n
             ELSE IF CloseToBorder(D, r)
                  THEN overlap_single_subpixel("circle", px, py, r, r, n)
                  ELSE 0
        ELSE 0


\* One element of elliptical_overlap_grid, times n * n: inside the box of
\* half size max(rx, ry) + 0.5 every pixel is sampled.
elliptical_overlap(px, py, rx, ry, n) ==
    LET r == Max(rx, ry)
    IN  IF px > -r - Scale /\ px < r + Scale /\ py > -r - Scale /\ py < r + Scale
        THEN overlap_single_subpixel("ellipse", px, py, rx, ry, n)
        ELSE 0

\* One element of rectangular_overlap_grid, times n * n: every pixel of the
\* grid is sampled.
rectangular_overlap(px, py, width, height, n) ==
    overlap_single_subpixel("rectangle", px, py, width, height, n)

\* The weight numerator of the pixel at (px, py) for a shape of size (a, b).
shape_overlap(shape, px, py, a, b, n) ==
    CASE shape = "circle" -> circular_overlap(px, py, a, n)
      [] shape = "ellipse" -> elliptical_overlap(px, py, a, b, n)
      [] shape = "rectangle" -> rectangular_overlap(px, py, a, b, n)

\* ----------------------------------------------------------- to_mask
\* (mutant) the subpixels keyword is passed on whatever the method.
translate_mask_mode_keep_subpixels(method, subpixels) == subpixels

\* _translate_mask_mode: the subpixel count the overlap grid is run with.
\* 'center' is the subpixel loop with one subpixel; the subpixels keyword
\* is read for 'subpixel' only.
translate_mask_mode(method, subpixels) ==
    CASE method = "center" -> 1
      [] method = "subpixel" -> subpixels

\* (mutant) the count of subpixels inside is divided by subpixels, not by
\* subpixels * subpixels.
mask_den_linear(n) == n

\* The denominator of the weights: *_overlap_single_subpixel returns
\* frac / (subpixels * subpixels).
mask_den(n) == n * n

\* (mutant) the inner shape's grid is not subtracted.
to_mask_outer_only(ap, method, subpixels) ==
    LET n == translate_mask_mode(method, subpixels)
        bb == bbox(ap)
    IN  [bbox |-> bb,
         den |-> n * n,
         data |-> [p \in BBoxPixels(bb) |->
                      shape_overlap(ap.shape, Scale * p[1] - ap.x,
                                    Scale * p[2] - ap.y, ap.a, ap.b, n)]]

\* aperture.to_mask(method, subpixels): the ApertureMask over the aperture's
\* bounding box.  data[p] is the weight of pixel p as a numerator over den.
\* For an annulus the inner shape's grid is subtracted from the outer's
\* (mask -= inner), with no clipping.
to_mask(ap, method, subpixels) ==
    LET n == translate_mask_mode(method, subpixels)
        bb == bbox(ap)
        outer(p) == shape_overlap(ap.shape, Scale * p[1] - ap.x, Scale * p[2] - ap.y,
                                  ap.a, ap.b, n)
        inner(p) == shape_overlap(ap.shape, Scale * p[1] - ap.x, Scale * p[2] - ap.y,
                                  ap.a_in, ap.b_in, n)
    IN  [bbox |-> bb,
         den |-> mask_den(n),
         data |-> [p \in BBoxPixels(bb) |->
                      IF ap.annulus THEN outer(p) - inner(p) ELSE outer(p)]]


\* ------------------------------------------------- aperture_photometry
RECURSIVE SumOver(_, _)
SumOver(S, f) ==
    IF S = {} THEN 0
    ELSE LET p == CHOOSE q \in S : TRUE
         IN  f[p] + SumOver(S \ {p}, f)

\* get_overlap_slices: the pixels of the mask's bounding box that are pixels of
\* the image (slc_large); empty when the box lies outside the image.
overlap_pixels(apermask) == BBoxPixels(apermask.bbox) \cap Pixels

\* No result yet (the table variable is not bound).
NoPhot == [done |-> FALSE]

\* (mutant) the mask is not applied.
zero_masked_none(arr, m) == arr

\* data[mask] = 0.0 (and error[mask] = 0.0): a masked pixel is zeroed in the
\* copy the sums are taken from.
zero_masked(arr, m) == [p \in Pixels |-> IF m[p] THEN 0 ELSE arr[p]]

\* (mutant) the pixel values are summed without their weights.
unweighted_value(value, weight) == value

\* One term of the aperture sum: data[slc_large] * aper_weights.
weighted_value(value, weight) == value * weight

\* (mutant) the weight enters the variance sum squared.
weighted_variance_squared(variance, weight) == variance * weight * weight

\* (mutant) the errors are summed, not their squares.
variance_not_squared(err) == err

\* variance = error ** 2
variance_of(err) == err * err

\* One term of the variance sum: variance[slc_large] * aper_weights, the
\* weight entering once.
weighted_variance(variance, weight) == variance * weight

\* PixelAperture.do_photometry, the body of aperture_photometry for one
\* aperture position:
\*   data[mask] = 0, error[mask] = 0               (masked pixels are zeroed)
\*   variance = error ** 2
\*   no overlap of the box with the image          -> sum = sum_err = nan
\*   pixel_mask = weights > 0
\*   aperture_sum = (data * weights)[pixel_mask].sum()
\*   aperture_sum_err = sqrt((variance * weights)[pixel_mask].sum())
\* The sums are numerators over apermask.den; sum_var is aperture_sum_err
\* squared (the square root itself is not a rational number).  The record
\* keeps the call's arguments beside its results.
do_photometry(d, e, m, use_error, ap, method, subpixels) ==
    LET apermask == to_mask(ap, method, subpixels)
        slc == overlap_pixels(apermask)
        d0 == zero_masked(d, m)
        e0 == zero_masked(e, m)
        pixel_mask == {p \in slc : apermask.data[p] > 0}
        values == [p \in slc |-> weighted_value(d0[p], apermask.data[p])]
        varvalues == [p \in slc |->
                         weighted_variance(variance_of(e0[p]), apermask.data[p])]
    IN  [done |-> TRUE,
         aperture |-> ap, method |-> method, subpixels |-> subpixels,
         data |-> d, error |-> e, mask |-> m, use_error |-> use_error,
         apermask |-> apermask,
         nan |-> (slc = {}),
         aperture_sum |-> IF slc = {} THEN 0 ELSE SumOver(pixel_mask, values),
         sum_var |-> IF slc = {} \/ ~use_error THEN 0
                     ELSE SumOver(pixel_mask, varvalues)]

\* ------------------------------------------- the keywords' validation
\* A keyword value as the caller passes it: an int, a float (v halves, as
\* 2.5 = 5 halves), or the keyword left out.
IntArg(n) == [kind |-> "int", v |-> n]
FloatArg(halves) == [kind |-> "float", v |-> halves]
Missing == [kind |-> "missing", v |-> 0]

\* The value of subpixels when the keyword is left out.
DefaultSubpixels == 5

\* The binding of the subpixels keyword (subpixels=5 in the signature).
subpixels_keyword(given) ==
    IF given = Missing THEN IntArg(DefaultSubpixels) ELSE given

\* The method keyword left out, and its value then (method='exact' in the
\* signature).
MissingMethod == "(not given)"
DefaultMethod == "exact"

\* The binding of the method keyword.
method_keyword(given) ==
    IF given = MissingMethod THEN DefaultMethod ELSE given

NoError == "none"

\* (mutant) the subpixels value is checked whatever the method.
mask_mode_error_any_method(method, subpixels) ==
    IF method \notin {"center", "subpixel", "exact"}
    THEN "Invalid mask mode"
    ELSE IF subpixels.kind # "int" \/ subpixels.v <= 0
         THEN "subpixels must be a strictly positive integer"
         ELSE NoError

\* (mutant) subpixels = 0 passes the check.
mask_mode_error_zero_allowed(method, subpixels) ==
    IF method \notin {"center", "subpixel", "exact"}
    THEN "Invalid mask mode"
    ELSE IF method = "subpixel" /\ (subpixels.kind # "int" \/ subpixels.v < 0)
         THEN "subpixels must be a strictly positive integer"
         ELSE NoError

\* The checks of _translate_mask_mode, the first thing to_mask does: the
\* ValueError it raises, or none.
\*   method not one of center, subpixel, exact      -> 'Invalid mask mode'
\*   method == 'subpixel' and subpixels not an int, or <= 0
\*                            -> 'subpixels must be a strictly positive integer'
mask_mode_error(method, subpixels) ==
    IF method \notin {"center", "subpixel", "exact"}
    THEN "Invalid mask mode"
    ELSE IF method = "subpixel" /\ (subpixels.kind # "int" \/ subpixels.v <= 0)
         THEN "subpixels must be a strictly positive integer"
         ELSE NoError

\* ------------------------------------------------- the arrays' shapes
\* arr.shape: (rows, columns) of a 2D array indexed by (x, y) from 0.
array_shape(arr) ==
    <<Cardinality({p[2] : p \in DOMAIN arr}), Cardinality({p[1] : p \in DOMAIN arr})>>

\* An array of the given shape holding the value v everywhere.
ArrayOfShape(shp, v) == [p \in (0 .. shp[2] - 1) \X (0 .. shp[1] - 1) |-> v]

\* (mutant) only the number of rows is compared.
same_shape_rows_only(arr, d) == array_shape(arr)[1] = array_shape(d)[1]

\* error.shape == data.shape, mask.shape == data.shape
same_shape(arr, d) == array_shape(arr) = array_shape(d)

\* The checks of aperture_photometry on its arrays (an array left out is not
\* checked): the ValueError raised, or none.
shape_error(d, e, m, use_error, use_mask) ==
    IF use_error /\ ~same_shape(e, d)
    THEN "error and data must have the same shape"
    ELSE IF use_mask /\ ~same_shape(m, d)
         THEN "mask and data must have the same shape"
         ELSE NoError

\* ---------------------------------- aperture_photometry, many positions
\* No table in the making.
NoBatch == [state |-> "idle"]

\* (mutant) every row gets the same id.
row_id_constant(k) == 1

\* The id column: np.arange(len(positions)) + 1.
row_id(k) == k

\* (mutant) the position without overlap gets no row.
add_row_skip_nan(rows, row) == IF row.nan THEN rows ELSE Append(rows, row)

\* The rows are kept in the order of the positions.
add_row(rows, row) == Append(rows, row)

\* The row of the k-th position: id, xcenter, ycenter and the sums of
\* do_photometry for the aperture at that position.
batch_row(k, pos, d, e, m, ap, method, subpixels) ==
    LET r == do_photometry(d, e, m, TRUE,
                           [ap EXCEPT !.x = pos[1], !.y = pos[2]],
                           method, subpixels)
    IN  [id |-> row_id(k), xcenter |-> pos[1], ycenter |-> pos[2],
         nan |-> r.nan, aperture_sum |-> r.aperture_sum,
         sum_var |-> r.sum_var, den |-> r.apermask.den]

\* The call as it starts: nothing checked, no row.
batch_begin(positions, method, subpixels) ==
    [state |-> "running", positions |-> positions, method |-> method,
     subpixels |-> subpixels, k |-> 0, rows |-> << >>, error |-> NoError]

\* (mutant) the keywords are checked inside the loop over the positions, when
\* the first position's row has been allocated.
batch_step_lazy(b, d, e, m, ap) ==
    IF b.k = 0
    THEN [b EXCEPT !.k = 1]
    ELSE IF mask_mode_error(b.method, IntArg(b.subpixels)) # NoError
         THEN [b EXCEPT !.state = "failed",
                        !.error = mask_mode_error(b.method, IntArg(b.subpixels)),
                        !.rows = Append(b.rows,
                                        [id |-> row_id(b.k),
                                         xcenter |-> b.positions[b.k][1],
                                         ycenter |-> b.positions[b.k][2],
                                         nan |-> TRUE, aperture_sum |-> 0,
                                         sum_var |-> 0, den |-> 1])]
         ELSE [b EXCEPT !.k = b.k + 1,
                        !.state = IF b.k = Len(b.positions) THEN "done"
                                  ELSE "running",
                        !.rows = add_row(b.rows,
                                         batch_row(b.k, b.positions[b.k], d, e, m, ap,
                                                   b.method, b.subpixels))]

\* One step of aperture_photometry over an aperture with many positions.
\* Step 0 is to_mask's check of method and subpixels, which raises before
\* any mask is made; step k >= 1 is the k-th turn of the loop over the
\* positions (in the library all masks are made first and the sums follow, in
\* the same order: a position's row depends on that position only).
batch_step(b, d, e, m, ap) ==
    IF b.k = 0
    THEN IF mask_mode_error(b.method, IntArg(b.subpixels)) # NoError
         THEN [b EXCEPT !.state = "failed",
                        !.error = mask_mode_error(b.method, IntArg(b.subpixels))]
         ELSE [b EXCEPT !.k = 1]
    ELSE [b EXCEPT !.k = b.k + 1,
                   !.state = IF b.k = Len(b.positions) THEN "done" ELSE "running",
                   !.rows = add_row(b.rows,
                                    batch_row(b.k, b.positions[b.k], d, e, m, ap,
                                              b.method, b.subpixels))]

\* The whole call: the steps up to the table or the error.
RECURSIVE run_batch(_, _, _, _, _)
run_batch(b, d, e, m, ap) ==
    IF b.state # "running" THEN b
    ELSE run_batch(batch_step(b, d, e, m, ap), d, e, m, ap)

\* ----------------------------------------------------------- SigmaClip
\* sigma_clip=None, and SigmaClip(sigma=sigma, maxiters=maxiters) with the
\* defaults cenfunc='median', stdfunc='std'.
NoSigmaClip == [sigma |-> 0, maxiters |-> 0]
SigmaClip(sigma, maxiters) == [sigma |-> sigma, maxiters |-> maxiters]

\* The k-th smallest (k from 1) of the values v[p], p in S.
KthValue(S, v, k) ==
    CHOOSE x \in {v[p] : p \in S} :
        /\ Cardinality({p \in S : v[p] < x}) < k
        /\ k <= Cardinality({p \in S : v[p] <= x})

\* np.median of the values, times 2: the middle value, or the mean of the two
\* middle values.
median2(S, v) ==
    LET n == Cardinality(S)
    IN  KthValue(S, v, (n + 1) \div 2) + KthValue(S, v, n \div 2 + 1)

\* np.std of the values, squared, times n * n:  n * sum(x^2) - sum(x)^2.
variance_n2(S, v) ==
    LET n == Cardinality(S)
        s1 == SumOver(S, [p \in S |-> v[p]])
        s2 == SumOver(S, [p \in S |-> v[p] * v[p]])
    IN  n * s2 - s1 * s1

\* _compute_bounds: the centre (median) and the spread (std) of the values of
\* the pixels S, the values taken as they are, without weights.
\*   min_value = median - sigma * std,  max_value = median + sigma * std
compute_bounds(S, v) ==
    [n |-> Cardinality(S), median2 |-> median2(S, v), var_n2 |-> variance_n2(S, v)]

NoBounds == [n |-> 0, median2 |-> 0, var_n2 |-> 0]

\* (x >= min_value) & (x <= max_value) in exact arithmetic:
\*   |x - median| <= sigma * std, squared and cleared of fractions.
within_bounds(x, b, sigma) ==
    (2 * x - b.median2) * (2 * x - b.median2) * b.n * b.n
        <= 4 * sigma * sigma * b.var_n2

\* No run of a SigmaClip object.
NoClipRun == [state |-> "idle"]

\* SigmaClip.__call__ on the values of the pixels S0, before its loop:
\*   nchanged = 1; iteration = 0
sigclip_begin(S0, sc) ==
    [state |-> "running", all |-> S0, filtered |-> S0,
     sigma |-> sc.sigma, maxiters |-> sc.maxiters,
     iteration |-> 0, nchanged |-> 1, bounds |-> NoBounds]

\* (mutant) the loop runs while iteration <= maxiters.
sigclip_continue_one_more(c) ==
    c.nchanged # 0 /\ c.iteration <= c.maxiters

\* while nchanged != 0 and (iteration < self.maxiters):
sigclip_continue(c) ==
    c.nchanged # 0 /\ c.iteration < c.maxiters

\* One test of the loop's condition and, when it holds, one turn of the loop:
\*   iteration += 1; size = filtered_data.size
\*   self._compute_bounds(filtered_data)
\*   filtered_data = filtered_data[(filtered_data >= min) & (filtered_data <= max)]
\*   nchanged = size - filtered_data.size
sigclip_step(c, v) ==
    IF sigclip_continue(c)
    THEN LET b == compute_bounds(c.filtered, v)
             kept == {p \in c.filtered : within_bounds(v[p], b, c.sigma)}
         IN  [c EXCEPT !.iteration = c.iteration + 1,
                       !.bounds = b,
                       !.filtered = kept,
                       !.nchanged = Cardinality(c.filtered) - Cardinality(kept)]
    ELSE [c EXCEPT !.state = "done"]

RECURSIVE run_sigclip(_, _)
run_sigclip(c, v) ==
    IF c.state # "running" THEN c ELSE run_sigclip(sigclip_step(c, v), v)

\* The pixels the finished run masks: the mask is set from the bounds of the
\* last turn, applied to all the values the call was given,
\*   mask |= (data < min_value) | (data > max_value)
sigclip_mask(c, v) ==
    {p \in c.all : ~within_bounds(v[p], c.bounds, c.sigma)}

\* sigma_clip(values of the pixels S0): the pixels it masks; none without a
\* SigmaClip object, and none when there is no value.
sigma_clipped(S0, v, sc) ==
    IF sc = NoSigmaClip \/ S0 = {} THEN {}
    ELSE sigclip_mask(run_sigclip(sigclip_begin(S0, sc), v), v)

\* ------------------------------------------------------- ApertureStats
\* No catalog yet.
NoStats == [done |-> FALSE]

\* (mutant) the sum-related properties are taken with the "center" mask the
\* other statistics use.
sum_aperture_mask_center(ap, sum_method, subpixels) ==
    to_mask(ap, "center", subpixels)

\* The aperture mask of the sum-related properties (sum, sum_err,
\* sum_aper_area): aperture.to_mask(method=sum_method, subpixels=subpixels).
sum_aperture_mask(ap, sum_method, subpixels) ==
    to_mask(ap, sum_method, subpixels)

\* (mutant) the local background is not subtracted.
local_bkg_ignored(value, local_bkg) == value

\* data_cutout -= local_bkg: the per-pixel local background is subtracted
\* from every pixel of the cutout, before the weights are applied.
subtract_local_bkg(value, local_bkg) == value - local_bkg

\* (mutant) the area counts the masked pixels too.
area_term_unmasked(weight, masked) == weight

\* One term of sum_aper_area: weight * ~mask.
area_term(weight, masked) == IF masked THEN 0 ELSE weight

\* The pixels of a cutout that are not masked, before any sigma clipping:
\*   mask_cutout = (weight_cutout == 0) | mask[slc_large]
cutout_pixels(apermask, m) ==
    {p \in overlap_pixels(apermask) : apermask.data[p] # 0 /\ ~m[p]}

\* (mutant) the cutout is not sigma clipped.
cutout_pixels_unclipped(apermask, d, m, local_bkg, sigma_clip) ==
    cutout_pixels(apermask, m)

\* The pixels of a cutout that are not masked, after sigma clipping: the
\* SigmaClip object is run on the values of the cutout's unmasked pixels,
\* local background subtracted and not weighted, and the pixels it masks are
\* masked in the cutout.  The same is done for the cutouts of the sum-related
\* properties and for those of the other properties.
clipped_cutout_pixels(apermask, d, m, local_bkg, sigma_clip) ==
    LET S0 == cutout_pixels(apermask, m)
        v == [p \in S0 |-> subtract_local_bkg(d[p], local_bkg)]
    IN  S0 \ sigma_clipped(S0, v, sigma_clip)

\* ApertureStats(data, aperture, error=error, mask=mask, sum_method=...,
\* subpixels=..., local_bkg=..., sigma_clip=...), its sum-related properties
\* for one aperture position:
\*   the cutouts over the overlap of the mask's box with the image:
\*     data_cutout = data[slc_large] - local_bkg
\*     mask_cutout = (weight_cutout == 0) | mask[slc_large], and with a
\*                   SigmaClip object also the pixels it clips
\*   sum           = the sum of data_cutout * weight_cutout, unmasked pixels
\*   sum_err       = sqrt of the sum of error**2 * weight, unmasked pixels
\*   sum_aper_area = the sum of weight * ~mask_cutout
\*   no overlap with the image -> nan
\* Sums and area are numerators over apermask.den; sum_var is sum_err squared.
\* The other properties are computed when they are read (see below).
ApertureStats(d, e, m, use_error, ap, sum_method, subpixels, local_bkg, sigma_clip) ==
    LET apermask == sum_aperture_mask(ap, sum_method, subpixels)
        slc == overlap_pixels(apermask)
        data_cutout == [p \in slc |-> subtract_local_bkg(d[p], local_bkg)]
        unmasked == clipped_cutout_pixels(apermask, d, m, local_bkg, sigma_clip)
    IN  [done |-> TRUE,
         aperture |-> ap, method |-> sum_method, subpixels |-> subpixels,
         data |-> d, error |-> e, mask |-> m, use_error |-> use_error,
         local_bkg |-> local_bkg, sigma_clip |-> sigma_clip,
         apermask |-> apermask,
         nan |-> (slc = {}),
         sum |-> SumOver(unmasked,
                         [p \in slc |-> data_cutout[p] * apermask.data[p]]),
         sum_var |-> IF ~use_error THEN 0
                     ELSE SumOver(unmasked,
                                  [p \in slc |-> e[p] * e[p] * apermask.data[p]]),
         sum_aper_area |-> SumOver(slc,
                                   [p \in slc |->
                                       area_term(apermask.data[p],
                                                 p \notin unmasked)])]

\* (mutant) the other properties are taken with the mask of sum_method.
aperture_masks_center_sum_method(self) ==
    to_mask(self.aperture, self.method, self.subpixels)

\* self._aperture_masks_center: the aperture mask of the properties that are
\* not sum-related, always made with method='center'.
aperture_masks_center(self) == to_mask(self.aperture, "center", 1)

\* The pixels the properties that are not sum-related are computed from: the
\* unmasked pixels of the center cutout, sigma clipped.
center_pixels(self) ==
    clipped_cutout_pixels(aperture_masks_center(self), self.data, self.mask,
                          self.local_bkg, self.sigma_clip)

\* The statistics of the values v of the pixels S, the values taken as they
\* are (every weight is 1):
\*   min, max, mean (its numerator and its count), median (times 2),
\*   std (squared, times the count squared) and centroid (the first moments
\*   m10, m01 and the zeroth moment m00 of the values, in image coordinates).
values_statistics(S, v) ==
    [min |-> KthValue(S, v, 1),
     max |-> KthValue(S, v, Cardinality(S)),
     mean |-> [sum |-> SumOver(S, v), n |-> Cardinality(S)],
     median |-> median2(S, v),
     std |-> variance_n2(S, v),
     centroid |-> [m10 |-> SumOver(S, [p \in S |-> p[1] * v[p]]),
                   m01 |-> SumOver(S, [p \in S |-> p[2] * v[p]]),
                   m00 |-> SumOver(S, v)]]

\* The statistics of the data values, local background subtracted, of the
\* pixels S.
cutout_statistics(self, S) ==
    values_statistics(S, [p \in S |-> subtract_local_bkg(self.data[p], self.local_bkg)])

\* apstats.min, .max, .mean, .median, .std, .centroid: computed when read,
\* from the center cutout.
center_statistics(self) == cutout_statistics(self, center_pixels(self))

\* total_bkg = bkg_mean * circ_apstats.sum_aper_area.value
total_bkg(bkg, area) == bkg * area

\* ------------------------------------ aperture_photometry, many apertures
\* (mutant) the running index starts at 1.
column_index_from_one(k) == k

\* The i of enumerate(apertures) for the k-th aperture of the list (the
\* model's sequences count from 1, Python's from 0).
column_index(k) == k - 1

\* The name of a column of the k-th aperture: the key itself for a single
\* aperture object, key + f'_{i}' for a list of apertures (also a list of
\* one).
column_name(key, single_aperture, k) ==
    IF single_aperture THEN key ELSE key \o "_" \o ToString(column_index(k))

\* tbl[sum_key] = aper_sum; tbl[sum_err_key] = aper_sum_err (with an error
\* array only), for the k-th aperture: an assignment overwrites a column of
\* the same name.  A cell keeps the sum's numerator, its denominator and
\* whether it is nan; the error column keeps the error squared.
set_columns(tbl, k, r, single_aperture) ==
    LET sum_col == column_name("aperture_sum", single_aperture, k) :>
                      [nan |-> r.nan, value |-> r.aperture_sum, den |-> r.apermask.den]
        err_col == column_name("aperture_sum_err", single_aperture, k) :>
                      [nan |-> r.nan, value |-> r.sum_var, den |-> r.apermask.den]
    IN  IF r.use_error THEN err_col @@ sum_col @@ tbl ELSE sum_col @@ tbl

\* The loop of aperture_photometry over its apertures, from the k-th on:
\*   for i, aper in enumerate(apertures): ... do_photometry ... tbl[...] = ...
RECURSIVE photometry_columns(_, _, _, _, _, _, _, _, _)
photometry_columns(tbl, k, d, e, m, use_error, apertures, method, subpixels) ==
    IF k > Len(apertures) THEN tbl
    ELSE photometry_columns(
             set_columns(tbl, k,
                         do_photometry(d, e, m, use_error, apertures[k],
                                       method, subpixels),
                         FALSE),
             k + 1, d, e, m, use_error, apertures, method, subpixels)

\* The table before the loop: the columns id, xcenter, ycenter of the
\* apertures' shared position.
position_columns(ap) ==
    ("id" :> [nan |-> FALSE, value |-> 1, den |-> 1])
    @@ ("xcenter" :> [nan |-> FALSE, value |-> ap.x, den |-> Scale])
    @@ ("ycenter" :> [nan |-> FALSE, value |-> ap.y, den |-> Scale])

\* aperture_photometry(data, apertures, error=error, mask=mask, ...) for a
\* list of apertures at one position: the table and the call's arguments.
aperture_photometry_list(d, e, m, use_error, apertures, method, subpixels) ==
    [done |-> TRUE, nan |-> FALSE, list |-> TRUE,
     apertures |-> apertures, method |-> method, subpixels |-> subpixels,
     data |-> d, error |-> e, mask |-> m, use_error |-> use_error,
     columns |-> photometry_columns(position_columns(apertures[1]), 1, d, e, m,
                                    use_error, apertures, method, subpixels)]

\* --------------------------------------------------- ApertureMask methods
\* The result of a method for a mask whose box does not overlap the image.
NoOverlap == [overlap |-> FALSE]

\* mask.cutout(data): the data over the mask's bounding box, an array of the
\* mask's shape; where the box reaches outside the image the cutout holds
\* fill_value = 0.0.
cutout(apermask, d) ==
    IF overlap_pixels(apermask) = {} THEN NoOverlap
    ELSE [overlap |-> TRUE,
          data |-> [p \in BBoxPixels(apermask.bbox) |->
                       IF p \in DOMAIN d THEN d[p] ELSE 0]]

\* mask.multiply(data): the cutout times the weights (numerators over den).
multiply(apermask, d) ==
    IF overlap_pixels(apermask) = {} THEN NoOverlap
    ELSE [overlap |-> TRUE,
          data |-> [p \in BBoxPixels(apermask.bbox) |->
                       cutout(apermask, d).data[p] * apermask.data[p]]]

\* mask.to_image(shape): an image of the given shape (ny, nx) holding the
\* weights at the mask's position, 0 elsewhere; the part of the mask outside
\* the image is dropped.
to_image(apermask, shp) ==
    LET image == (0 .. shp[2] - 1) \X (0 .. shp[1] - 1)
    IN  IF BBoxPixels(apermask.bbox) \cap image = {} THEN NoOverlap
        ELSE [overlap |-> TRUE,
              data |-> [p \in image |->
                           IF p \in DOMAIN apermask.data THEN apermask.data[p] ELSE 0]]

\* -------------------------------------- the caller's arrays across a call
\* An array as a call holds it: the caller's array, the array the call works
\* on, and whether the two are one and the same array.
\* (mutant) no copy is made: the call works on the caller's own array.
bind_same(arr) == [caller |-> arr, working |-> arr, same |-> TRUE]

\* data = data.copy()  (aperture_photometry, before data[mask] = 0.0; the
\* cutouts of ApertureStats are copies, too): the call works on a new array.
bind_copy(arr) == [caller |-> arr, working |-> arr, same |-> FALSE]

\* An in-place write (data[mask] = 0.0, data_cutout -= local_bkg) of the
\* values new to the working array: when the working array is the caller's
\* array the caller sees the write.
write_array(arrs, new) ==
    [arrs EXCEPT !.working = new,
                 !.caller = IF arrs.same THEN new ELSE arrs.caller]

\* The caller's data array after aperture_photometry(data, ..., mask=m).
data_after_photometry(d, m) ==
    write_array(bind_copy(d), zero_masked(d, m)).caller

\* The caller's data array after ApertureStats(data, ..., local_bkg=...) and
\* the reading of its properties.
data_after_stats(d, local_bkg) ==
    write_array(bind_copy(d),
                [p \in DOMAIN d |-> subtract_local_bkg(d[p], local_bkg)]).caller

\* ------------------------------------------------------------ inputs
\* The images the session may load: a uniform image and one whose values
\* differ from pixel to pixel (with a negative and a zero value, as in
\* background-subtracted data), each with its error array.
UniformData == [p \in Pixels |-> 3]
RampData == [p \in Pixels |-> 2 * p[1] - p[2] + 1]
UniformError == [p \in Pixels |-> 2]
RampError == [p \in Pixels |-> 1 + p[1] + p[2]]
Images == {[data |-> UniformData, error |-> UniformError],
           [data |-> RampData, error |-> RampError]}

NoMask == [p \in Pixels |-> FALSE]

\* Aperture centres (x, y): a pixel centre, a point off the pixel lattice, a
\* pixel corner, the centre of the image's corner pixel (the aperture crosses
\* the image edge) and a point far outside the image.
Positions == {<<10, 10>>, <<13, 9>>, <<15, 15>>, <<0, 0>>, <<-40, 10>>}
Radii == {5, 10, 14}
Axes == {<<10, 5>>, <<14, 10>>}
Sides == {<<12, 8>>, <<20, 10>>}

\* Shape parameters no aperture may have.
BadSizes == {0, -5}
BadAxes == {<<0, 5>>, <<10, -5>>}
BadSides == {<<0, 8>>, <<12, -8>>}

\* A method name the library does not know.
InvalidMethod == "bilinear"

\* The methods a call may name: the three of the library and an unknown one.
CallMethods == Methods \cup {"exact", InvalidMethod}

\* The values a call may give the subpixels keyword: left out, 2.5, and the
\* ints from -1.
SubpixelArgs ==
    {Missing, FloatArg(5)} \cup {IntArg(n) : n \in -1 .. MaxSubpixels}

\* The shapes of the error and mask arrays a call may pass: the image's, one
\* row more, one column more.
ArrayShapes ==
    {<<ImgSize, ImgSize>>, <<ImgSize + 1, ImgSize>>, <<ImgSize, ImgSize + 1>>}

\* The most positions one aperture object holds.
MaxBatch == 2

\* The positions of an aperture object with many positions: the middle of the
\* image, off a pixel centre, and far outside the image.
BatchPositions == {<<10, 10>>, <<13, 9>>, <<-40, 10>>}

RECURSIVE SeqsOf(_, _)
SeqsOf(S, n) ==
    IF n = 0 THEN {<< >>}
    ELSE {Append(q, x) : q \in SeqsOf(S, n - 1), x \in S}

PositionLists == UNION {SeqsOf(BatchPositions, n) : n \in 1 .. MaxBatch}

\* The per-pixel local background levels passed as local_bkg (0: the default).
LocalBkgs == {0, 2}

\* The most apertures one list holds.
MaxApertures == 3

\* The radii of the apertures of a list, each radius once and in any order:
\* [CircularAperture(positions, r=r) for r in radii].
RadiiLists ==
    {radii \in UNION {SeqsOf(Radii, n) : n \in 1 .. MaxApertures} :
        \A j, k \in 1 .. Len(radii) : j # k => radii[j] # radii[k]}

\* The SigmaClip objects of the calls: sigma = 3.0, maxiters = 10 as in the
\* notebook, and a narrow clip (sigma = 1) with one, two or ten iterations.
Sigmas == {1, 3}
MaxIters == {1, 2, 10}
SigmaClips == {SigmaClip(sigma, maxiters) : sigma \in Sigmas, maxiters \in MaxIters}

\* The local-background notebook's inputs: the effective gain (the header's
\* exposure time), and the source positions, off the pixel lattice by the
\* tenths of a pixel given.
EffGains == {1, 2}
Offsets == {0, 3, 4, 5, 6, 7}
NotebookPositions == {<<Scale + fx, Scale + fy>> : fx \in Offsets, fy \in Offsets}

\* ------------------------------------------ the local-background notebook
\* The pixel values and errors of this notebook are counted in 1/DataUnit
\* e-/s, so that the background of 7.2 e-/s is a whole number.
DataUnit == 10
Background == 72

\* total_error = calc_total_error(data, error, eff_gain):
\*   sqrt(bkg_error**2 + np.maximum(data / effective_gain, 0))
\* kept as its square, a numerator over DataUnit * DataUnit * effective_gain.
\* (mutant) the source's Poisson term is left out.
calc_total_error_no_source(d, bkg_error, effective_gain) ==
    [p \in DOMAIN d |-> effective_gain * bkg_error[p] * bkg_error[p]]

calc_total_error(d, bkg_error, effective_gain) ==
    [p \in DOMAIN d |->
        effective_gain * bkg_error[p] * bkg_error[p] + DataUnit * Max(d[p], 0)]

\* data += 7.2: every pixel of the array, in place.
add_background(d) == [p \in DOMAIN d |-> d[p] + Background]

\* radius = 5.0; r_in = 10.0, r_out = 15.0 (pixels).
radius == 5 * Scale
\* (mutant) the annulus begins where the photometry aperture ends.
bkg_r_in_at_radius == radius
bkg_r_in == 10 * Scale
bkg_r_out == 15 * Scale

\* ApertureStats(data << unit, aper, error=total_error << unit) of this
\* notebook, the total error given as its square: the catalog of the call
\* without the error, and the sum_err (squared) of the total error.  The
\* notebook leaves sum_method at its default; the stand-in here is the
\* subpixel method with the finest grid.
notebook_stats(d, total_error, ap) ==
    LET self == ApertureStats(d, d, NoMask, FALSE, ap, "subpixel", MaxSubpixels,
                              0, NoSigmaClip)
        included == cutout_pixels(self.apermask, NoMask)
    IN  [done |-> TRUE, data |-> d, error |-> total_error, aperture |-> ap,
         apermask |-> self.apermask,
         sum |-> self.sum,
         sum_var |-> SumOver(included,
                             [p \in included |->
                                 total_error[p] * self.apermask.data[p]])]

\* The same call without the error keyword (bkg_apstats).
notebook_stats_no_error(d, ap) ==
    LET self == ApertureStats(d, d, NoMask, FALSE, ap, "subpixel", MaxSubpixels,
                              0, NoSigmaClip)
    IN  [done |-> TRUE, data |-> d, aperture |-> ap,
         apermask |-> self.apermask, sum |-> self.sum]

\* The notebook's code cells, in the order they are run.
\* (mutant) the background is added before the total error is computed.
NotebookCells_background_first ==
    <<"add_background", "total_error", "circ_aper", "circ_apstats", "bkg_aper",
      "bkg_apstats">>

NotebookCells ==
    <<"total_error", "add_background", "circ_aper", "circ_apstats", "bkg_aper",
      "bkg_apstats">>

\* ------------------------------------------------------------- state
VARIABLES
    data,       \* the science image (data, then data2 with its bad pixel)
    error,      \* the total error array
    mask,       \* the boolean bad-pixel mask (TRUE = ignored)
    aperture,   \* the aperture object
    masks,      \* the ApertureMask returned by aperture.to_mask
    phot,       \* the result of aperture_photometry
    apstats,    \* the ApertureStats catalog
    batch,      \* aperture_photometry over many positions: its progress and table
    call,       \* the call that raised, or whose keywords were checked
    sigclip,    \* the run of the SigmaClip object on an aperture's pixels
    nb          \* the local-background notebook: the cells run and their names

vars == <<data, error, mask, aperture, masks, phot, apstats, batch, call, sigclip, nb>>

\* The local-background notebook is not open.
NoNotebook == [state |-> "closed"]

NoCall == [done |-> FALSE]

NoMasks == [done |-> FALSE]

Init ==
    /\ \E img \in Images : data = img.data /\ error = img.error
    /\ mask = NoMask
    /\ aperture = NoAperture
    /\ masks = NoMasks
    /\ phot = NoPhot
    /\ apstats = NoStats
    /\ batch = NoBatch
    /\ call = NoCall
    /\ sigclip = NoClipRun
    /\ nb = NoNotebook

\* Nothing has been computed yet.  The session runs top to bottom: the arrays
\* and the aperture are set up, then one call reads them.
Setup ==
    /\ ~masks.done /\ ~phot.done /\ ~apstats.done /\ batch = NoBatch /\ ~call.done
    /\ sigclip = NoClipRun

HasBadPixel == \E p \in Pixels : data[p] = BadPixelValue

\* The pixels the session may turn into the bad pixel: the image's corner
\* pixel, its centre pixel and the centre's right-hand neighbour.
BadPixels == {<<0, 0>>, <<1, 1>>, <<2, 1>>}

\* data2 = data.copy(); data2[y, x] = 100.0
SetBadPixel(p) ==
    /\ Setup
    /\ ~HasBadPixel
    /\ data' = [data EXCEPT ![p] = BadPixelValue]
    /\ UNCHANGED <<error, mask, aperture, masks, phot, apstats, batch, call, sigclip, nb>>

\* mask = np.zeros_like(data2, dtype=bool); mask[y, x] = True, for the (y, x)
\* of the bad pixel.
SetMask(p) ==
    /\ Setup
    /\ data[p] = BadPixelValue
    /\ ~mask[p]
    /\ mask' = [mask EXCEPT ![p] = TRUE]
    /\ UNCHANGED <<data, error, aperture, masks, phot, apstats, batch, call, sigclip, nb>>

\* The constructor's outcome: the aperture object, or the ValueError its
\* checks raise (the variable keeps its value).
Construct(ap) ==
    IF aperture_error(ap) = "none"
    THEN aperture' = ap /\ call' = call
    ELSE /\ aperture' = aperture
         /\ call' = [done |-> TRUE, op |-> "aperture", ap |-> ap,
                     raised |-> aperture_error(ap)]

DefineCircularAperture(pos, r) ==
    /\ Setup
    /\ aperture = NoAperture
    /\ Construct(CircularAperture(pos, r))
    /\ UNCHANGED <<data, error, mask, masks, phot, apstats, batch, sigclip, nb>>

DefineCircularAnnulus(pos, r_in, r_out) ==
    /\ Setup
    /\ aperture = NoAperture
    /\ Construct(CircularAnnulus(pos, r_in, r_out))
    /\ UNCHANGED <<data, error, mask, masks, phot, apstats, batch, sigclip, nb>>

DefineEllipticalAperture(pos, ab) ==
    /\ Setup
    /\ aperture = NoAperture
    /\ Construct(EllipticalAperture(pos, ab[1], ab[2]))
    /\ UNCHANGED <<data, error, mask, masks, phot, apstats, batch, sigclip, nb>>

DefineEllipticalAnnulus(pos, ab_in, ab_out) ==
    /\ Setup
    /\ aperture = NoAperture
    /\ Construct(EllipticalAnnulus(pos, ab_in[1], ab_out[1], ab_out[2], ab_in[2]))
    /\ UNCHANGED <<data, error, mask, masks, phot, apstats, batch, sigclip, nb>>

DefineRectangularAperture(pos, wh) ==
    /\ Setup
    /\ aperture = NoAperture
    /\ Construct(RectangularAperture(pos, wh[1], wh[2]))
    /\ UNCHANGED <<data, error, mask, masks, phot, apstats, batch, sigclip, nb>>

DefineRectangularAnnulus(pos, wh_in, wh_out) ==
    /\ Setup
    /\ aperture = NoAperture
    /\ Construct(RectangularAnnulus(pos, wh_in[1], wh_out[1], wh_out[2], wh_in[2]))
    /\ UNCHANGED <<data, error, mask, masks, phot, apstats, batch, sigclip, nb>>

\* masks = aperture.to_mask(method=method, subpixels=subpixels)
ToMask(method, subpixels) ==
    /\ aperture # NoAperture
    /\ Setup
    /\ ~HasBadPixel
    /\ masks' = [done |-> TRUE, method |-> method, subpixels |-> subpixels,
                 apermask |-> to_mask(aperture, method, subpixels)]
    /\ UNCHANGED <<data, error, mask, aperture, phot, apstats, batch, call, sigclip, nb>>

\* phot = aperture_photometry(data, aperture, error=error, mask=mask,
\*                            method=method, subpixels=subpixels)
\* (use_error = FALSE: the call without the error keyword).
AperturePhotometry(method, subpixels, use_error) ==
    /\ aperture # NoAperture
    /\ Setup
    /\ phot' = do_photometry(data, error, mask, use_error, aperture, method, subpixels)
    /\ UNCHANGED <<data, error, mask, aperture, masks, apstats, batch, call, sigclip, nb>>

\* Some pixel of the image that is not masked has its centre in the aperture
\* (the catalog's statistics have pixels to work on), or the aperture does not
\* overlap the image at all.
HasUnmaskedPixel ==
    LET center == to_mask(aperture, "center", 1)
        slc == overlap_pixels(center)
    IN  (slc = {}) = ({p \in slc : center.data[p] = 1 /\ ~mask[p]} = {})

\* apstats = ApertureStats(data, aperture, error=error, mask=mask,
\*                         sum_method=sum_method, subpixels=subpixels,
\*                         local_bkg=local_bkg)
ApertureStatsCall(sum_method, subpixels, use_error, local_bkg) ==
    /\ aperture # NoAperture
    /\ Setup
    /\ HasUnmaskedPixel
    /\ apstats' = ApertureStats(data, error, mask, use_error, aperture,
                                sum_method, subpixels, local_bkg, NoSigmaClip)
    /\ UNCHANGED <<data, error, mask, aperture, masks, phot, batch, call, sigclip, nb>>

\* The cells that set up the arrays and the aperture.
SetupStep ==
    \/ \E p \in BadPixels : SetBadPixel(p)
    \/ \E p \in Pixels : SetMask(p)
    \/ \E pos \in Positions, r \in Radii \cup BadSizes :
          DefineCircularAperture(pos, r)
    \/ \E pos \in Positions, r_in \in Radii \cup BadSizes, r_out \in Radii \cup BadSizes :
          DefineCircularAnnulus(pos, r_in, r_out)
    \/ \E pos \in Positions, ab \in Axes \cup BadAxes :
          DefineEllipticalAperture(pos, ab)
    \/ \E pos \in Positions, ab_in \in Axes \cup BadAxes, ab_out \in Axes \cup BadAxes :
          DefineEllipticalAnnulus(pos, ab_in, ab_out)
    \/ \E pos \in Positions, wh \in Sides \cup BadSides :
          DefineRectangularAperture(pos, wh)
    \/ \E pos \in Positions, wh_in \in Sides \cup BadSides, wh_out \in Sides \cup BadSides :
          DefineRectangularAnnulus(pos, wh_in, wh_out)

\* A session of the mask and aperture_photometry cells.
Next ==
    \/ SetupStep
    \/ \E method \in Methods, subpixels \in 1 .. MaxSubpixels :
          ToMask(method, subpixels)
    \/ \E method \in Methods, subpixels \in 1 .. MaxSubpixels, use_error \in BOOLEAN :
          AperturePhotometry(method, subpixels, use_error)

Spec == Init /\ [][Next]_vars

\* The subpixels values of the catalog's calls: the keyword is given with
\* sum_method='subpixel' only.
StatsSubpixels(sum_method) ==
    IF sum_method = "subpixel" THEN 1 .. MaxSubpixels ELSE {1}

\* A session of the ApertureStats cells.
NextStats ==
    \/ SetupStep
    \/ \E sum_method \in Methods, use_error \in BOOLEAN, local_bkg \in LocalBkgs :
          \E subpixels \in StatsSubpixels(sum_method) :
              ApertureStatsCall(sum_method, subpixels, use_error, local_bkg)

SpecStats == Init /\ [][NextStats]_vars

\* masks = aperture.to_mask(method=method, subpixels=given), with any value of
\* the keywords, either of them possibly left out.  The keywords are checked
\* first; a ValueError leaves masks as it was.  The weights of an 'exact'
\* mask are not represented: of such a call the state keeps that it raised
\* nothing.  The call is kept with the method in effect (method) and the
\* keywords as they were given.
ToMaskKeywords(method_given, given) ==
    /\ aperture # NoAperture
    /\ Setup
    /\ ~HasBadPixel
    /\ LET method == method_keyword(method_given)
           subpixels == subpixels_keyword(given)
           err == mask_mode_error(method, subpixels)
       IN  /\ call' = [done |-> TRUE, op |-> "to_mask", method |-> method,
                       method_given |-> method_given,
                       given |-> given, raised |-> err]
           /\ masks' = IF err = NoError /\ method \in Methods
                       THEN [done |-> TRUE, method |-> method,
                             subpixels |-> subpixels.v,
                             apermask |-> to_mask(aperture, method, subpixels.v)]
                       ELSE masks
    /\ UNCHANGED <<data, error, mask, aperture, phot, apstats, batch, sigclip, nb>>

\* phot = aperture_photometry(data, aperture, error=e, mask=m) with an error
\* array and a mask of the given shapes (use_error, use_mask FALSE: the
\* keyword is left out).  The shapes are checked first; a ValueError leaves
\* phot as it was.
AperturePhotometryArrays(error_shape, mask_shape, use_error, use_mask) ==
    /\ aperture # NoAperture
    /\ Setup
    /\ LET e == IF error_shape = array_shape(data) THEN error
                ELSE ArrayOfShape(error_shape, 2)
           m == IF ~use_mask THEN NoMask
                ELSE IF mask_shape = array_shape(data) THEN mask
                ELSE ArrayOfShape(mask_shape, FALSE)
           err == shape_error(data, e, m, use_error, use_mask)
       IN  /\ call' = [done |-> TRUE, op |-> "aperture_photometry",
                       error_shape |-> IF use_error THEN error_shape ELSE << >>,
                       mask_shape |-> IF use_mask THEN mask_shape ELSE << >>,
                       raised |-> err]
           /\ phot' = IF err = NoError
                      THEN do_photometry(data, e, m, use_error, aperture, "center", 1)
                      ELSE phot
    /\ (~use_error => error_shape = array_shape(data))
    /\ (~use_mask => mask_shape = array_shape(data))
    /\ UNCHANGED <<data, error, mask, aperture, masks, apstats, batch, sigclip, nb>>

\* A session of calls with any keywords and arrays.
NextErrors ==
    \/ SetupStep
    \/ \E method \in CallMethods \cup {MissingMethod}, given \in SubpixelArgs :
          ToMaskKeywords(method, given)
    \/ \E error_shape \in ArrayShapes, mask_shape \in ArrayShapes,
          use_error \in BOOLEAN, use_mask \in BOOLEAN :
          AperturePhotometryArrays(error_shape, mask_shape, use_error, use_mask)

SpecErrors == Init /\ [][NextErrors]_vars

\* apertures = CircularAperture(positions, r=radius)
\* phot = aperture_photometry(data, apertures, error=total_error,
\*                            method=method, subpixels=subpixels)
\* for the aperture object holding these positions, the first of them the
\* position the aperture was defined with: the call starts.
StartBatch(positions, method, subpixels) ==
    /\ aperture # NoAperture
    /\ Setup
    /\ ~HasBadPixel
    /\ positions[1] = <<aperture.x, aperture.y>>
    /\ batch' = batch_begin(positions, method, subpixels)
    /\ UNCHANGED <<data, error, mask, aperture, masks, phot, apstats, call, sigclip, nb>>

\* The call goes on: the check of the keywords, then one position per step.
BatchStep ==
    /\ batch.state = "running"
    /\ batch' = batch_step(batch, data, error, mask, aperture)
    /\ UNCHANGED <<data, error, mask, aperture, masks, phot, apstats, call, sigclip, nb>>

\* The method and subpixels keywords of the calls over many positions: two
\* valid pairs, an unknown method, and subpixels = 0.
BatchKeywords ==
    {<<"center", 1>>, <<"subpixel", 2>>, <<InvalidMethod, 1>>, <<"subpixel", 0>>}

\* A session of aperture_photometry over many positions.
NextBatch ==
    \/ SetupStep
    \/ \E positions \in PositionLists, kw \in BatchKeywords :
          StartBatch(positions, kw[1], kw[2])
    \/ BatchStep

SpecBatch == Init /\ [][NextBatch]_vars


\* apertures = [CircularAperture(positions, r=r) for r in radii]
\* phot = aperture_photometry(data, apertures, error=error, mask=mask,
\*                            method=method, subpixels=subpixels)
\* for the list whose first aperture is the aperture object defined before.
AperturePhotometryList(radii, method, subpixels, use_error) ==
    /\ aperture = CircularAperture(<<aperture.x, aperture.y>>, radii[1])
    /\ Setup
    /\ phot' = aperture_photometry_list(
                   data, error, mask, use_error,
                   [k \in 1 .. Len(radii) |->
                       CircularAperture(<<aperture.x, aperture.y>>, radii[k])],
                   method, subpixels)
    /\ UNCHANGED <<data, error, mask, aperture, masks, apstats, batch, call, sigclip, nb>>

\* The method and subpixels keywords of the calls with a list of apertures.
ListKeywords == {<<"center", 1>>, <<"subpixel", 2>>}

\* A session of aperture_photometry with a list of apertures.
NextList ==
    \/ SetupStep
    \/ \E radii \in RadiiLists, kw \in ListKeywords, use_error \in BOOLEAN :
          AperturePhotometryList(radii, kw[1], kw[2], use_error)

SpecList == Init /\ [][NextList]_vars

\* apstats = ApertureStats(data, aperture, error=error, mask=mask,
\*                         sum_method=sum_method, subpixels=subpixels,
\*                         local_bkg=local_bkg, sigma_clip=sigma_clip)
ApertureStatsSigmaClip(sum_method, subpixels, local_bkg, sigma_clip) ==
    /\ aperture # NoAperture
    /\ Setup
    /\ HasUnmaskedPixel
    /\ apstats' = ApertureStats(data, error, mask, TRUE, aperture,
                                sum_method, subpixels, local_bkg, sigma_clip)
    /\ UNCHANGED <<data, error, mask, aperture, masks, phot, batch, call, sigclip, nb>>

\* The sum_method and subpixels keywords of the calls with sigma_clip.
ClipKeywords == {<<"center", 1>>, <<"subpixel", 2>>}

\* The sigma_clip keyword: None, the notebook's object and two narrow clips.
ClipArgs == {NoSigmaClip, SigmaClip(3, 10), SigmaClip(1, 1), SigmaClip(1, 10)}

\* A session of the ApertureStats cells with the sigma_clip keyword.
NextClip ==
    \/ SetupStep
    \/ \E kw \in ClipKeywords, local_bkg \in LocalBkgs, sigma_clip \in ClipArgs :
          ApertureStatsSigmaClip(kw[1], kw[2], local_bkg, sigma_clip)

SpecClip == Init /\ [][NextClip]_vars

\* The sigma_clip keyword of the catalogs whose other properties are read.
PropsClipArgs == {NoSigmaClip, SigmaClip(1, 10)}

\* A session of the ApertureStats cells that read the properties which are not
\* sum-related (bkg_apstats.mean, bkg_stats.median).
NextProps ==
    \/ SetupStep
    \/ \E kw \in ClipKeywords, local_bkg \in LocalBkgs, sigma_clip \in PropsClipArgs :
          ApertureStatsSigmaClip(kw[1], kw[2], local_bkg, sigma_clip)

SpecProps == Init /\ [][NextProps]_vars

\* The unmasked pixels whose centre lies in the aperture: the pixels the
\* SigmaClip object of bkg_stats = ApertureStats(data, bkg_aper,
\* sigma_clip=sigclip) is run on when bkg_stats.median is read.
CenterCutout == cutout_pixels(to_mask(aperture, "center", 1), mask)

\* sigclip(values of the aperture's pixels): the call starts.
SigmaClipStart(sigma_clip) ==
    /\ aperture # NoAperture
    /\ Setup
    /\ HasUnmaskedPixel
    /\ CenterCutout # {}
    /\ sigclip' = sigclip_begin(CenterCutout, sigma_clip)
    /\ UNCHANGED <<data, error, mask, aperture, masks, phot, apstats, batch, call, nb>>

\* The call goes on: the loop's condition is tested and, when it holds, one
\* turn of the loop is made.
SigmaClipStep ==
    /\ sigclip.state = "running"
    /\ sigclip' = sigclip_step(sigclip, data)
    /\ UNCHANGED <<data, error, mask, aperture, masks, phot, apstats, batch, call, nb>>

\* A session that runs a SigmaClip object on an aperture's pixels.
NextSigmaClip ==
    \/ SetupStep
    \/ \E sigma_clip \in SigmaClips : SigmaClipStart(sigma_clip)
    \/ SigmaClipStep

SpecSigmaClip == Init /\ [][NextSigmaClip]_vars

\* The call, once started, runs on: nothing stops the interpreter between two
\* turns of the loop.
SpecSigmaClipFair == SpecSigmaClip /\ WF_vars(SigmaClipStep)

\* data_cutout = mask.cutout(data); data_weighted = mask.multiply(data);
\* maskimg = mask.to_image(shape=data.shape), for the mask made before.
ApplyMask ==
    /\ masks.done
    /\ ~call.done
    /\ call' = [done |-> TRUE, op |-> "mask",
                data_cutout |-> cutout(masks.apermask, data),
                data_weighted |-> multiply(masks.apermask, data),
                maskimg |-> to_image(masks.apermask, array_shape(data))]
    /\ UNCHANGED <<data, error, mask, aperture, masks, phot, apstats, batch, sigclip, nb>>

\* A session of the ApertureMask cells.
NextMask ==
    \/ SetupStep
    \/ \E method \in Methods, subpixels \in 1 .. MaxSubpixels :
          ToMask(method, subpixels)
    \/ ApplyMask

SpecMask == Init /\ [][NextMask]_vars

\* The cells of a session that calls again and again on the same arrays:
\* every call reads the arrays as the calls before it left them.
\* masks = aperture.to_mask(method='center'): the call is given no array.
CallToMask ==
    /\ aperture # NoAperture
    /\ ~call.done
    /\ masks' = [done |-> TRUE, method |-> "center", subpixels |-> 1,
                 apermask |-> to_mask(aperture, "center", 1)]
    /\ UNCHANGED <<data, error, mask, aperture, phot, apstats, batch, call, sigclip, nb>>

\* phot = aperture_photometry(data2, aperture, error=total_error, mask=mask,
\*                            method='subpixel', subpixels=2)
CallAperturePhotometry ==
    /\ aperture # NoAperture
    /\ ~call.done
    /\ phot' = do_photometry(data, error, mask, TRUE, aperture, "subpixel", 2)
    /\ data' = data_after_photometry(data, mask)
    /\ UNCHANGED <<error, mask, aperture, masks, apstats, batch, call, sigclip, nb>>

\* apstats = ApertureStats(data2, aperture, error=total_error, mask=mask,
\*                         sum_method='center', local_bkg=local_bkg)
CallApertureStats(local_bkg) ==
    /\ aperture # NoAperture
    /\ ~call.done
    /\ HasUnmaskedPixel
    /\ apstats' = ApertureStats(data, error, mask, TRUE, aperture, "center", 1,
                                local_bkg, NoSigmaClip)
    /\ data' = data_after_stats(data, local_bkg)
    /\ UNCHANGED <<error, mask, aperture, masks, phot, batch, call, sigclip, nb>>

\* The positions of the session's call over many positions: the aperture's
\* own and one more.
CallPositions == <<(<<aperture.x, aperture.y>>), (<<13, 9>>)>>

\* phot = aperture_photometry(data2, apertures, error=total_error, mask=mask,
\*                            method='center') over two positions, the whole
\* call.
CallBatch ==
    /\ aperture # NoAperture
    /\ ~call.done
    /\ batch' = run_batch(batch_begin(CallPositions, "center", 1),
                          data, error, mask, aperture)
    /\ data' = data_after_photometry(data, mask)
    /\ UNCHANGED <<error, mask, aperture, masks, phot, apstats, call, sigclip, nb>>

\* A session of any number of calls, in any order, on the arrays set up.
NextCalls ==
    \/ SetupStep
    \/ CallToMask
    \/ CallAperturePhotometry
    \/ \E local_bkg \in LocalBkgs \ {0} : CallApertureStats(local_bkg)
    \/ CallBatch

SpecCalls == Init /\ [][NextCalls]_vars

\* ----------------------------------- the local-background notebook's cells
\* The notebook as opened: the image and its background error are read, no
\* cell has been run.  hdu_data keeps the image as it was read.
InitLocalBkg ==
    /\ \E img \in Images : data = img.data /\ error = img.error
    /\ mask = NoMask
    /\ aperture = NoAperture
    /\ masks = NoMasks
    /\ phot = NoPhot
    /\ apstats = NoStats
    /\ batch = NoBatch
    /\ call = NoCall
    /\ sigclip = NoClipRun
    /\ \E g \in EffGains :
          nb = [state |-> "open", cell |-> 0, hdu_data |-> data, eff_gain |-> g,
                total_error |-> <<>>, error_from |-> <<>>,
                circ_aper |-> NoAperture, bkg_aper |-> NoAperture,
                circ_apstats |-> NoStats, bkg_apstats |-> NoStats]

\* The cells are run top to bottom: name is the next cell.
NextCell(name) ==
    /\ nb.cell < Len(NotebookCells)
    /\ NotebookCells[nb.cell + 1] = name

\* total_error = calc_total_error(data, error, eff_gain)
\* (error_from keeps the data array the call was given).
CalcTotalError ==
    /\ NextCell("total_error")
    /\ nb' = [nb EXCEPT !.cell = @ + 1,
                        !.total_error = calc_total_error(data, error, nb.eff_gain),
                        !.error_from = data]
    /\ UNCHANGED <<data, error, mask, aperture, masks, phot, apstats, batch, call, sigclip>>

\* data += 7.2
AddBackground ==
    /\ NextCell("add_background")
    /\ data' = add_background(data)
    /\ nb' = [nb EXCEPT !.cell = @ + 1]
    /\ UNCHANGED <<error, mask, aperture, masks, phot, apstats, batch, call, sigclip>>

\* circ_aper = CircularAperture(positions, r=radius)
DefineCircAper(position) ==
    /\ NextCell("circ_aper")
    /\ nb' = [nb EXCEPT !.cell = @ + 1,
                        !.circ_aper = CircularAperture(position, radius)]
    /\ UNCHANGED <<data, error, mask, aperture, masks, phot, apstats, batch, call, sigclip>>

\* circ_apstats = ApertureStats(data << unit, circ_aper, error=total_error << unit)
CircApstats ==
    /\ NextCell("circ_apstats")
    /\ nb' = [nb EXCEPT !.cell = @ + 1,
                        !.circ_apstats = notebook_stats(data, nb.total_error,
                                                        nb.circ_aper)]
    /\ UNCHANGED <<data, error, mask, aperture, masks, phot, apstats, batch, call, sigclip>>

\* bkg_aper = CircularAnnulus(positions, r_in=10.0, r_out=15.0), at the
\* positions of circ_aper.
DefineBkgAper ==
    /\ NextCell("bkg_aper")
    /\ nb' = [nb EXCEPT !.cell = @ + 1,
                        !.bkg_aper = CircularAnnulus(<<nb.circ_aper.x, nb.circ_aper.y>>,
                                                     bkg_r_in, bkg_r_out)]
    /\ UNCHANGED <<data, error, mask, aperture, masks, phot, apstats, batch, call, sigclip>>

\* bkg_apstats = ApertureStats(data << unit, bkg_aper)
BkgApstats ==
    /\ NextCell("bkg_apstats")
    /\ nb' = [nb EXCEPT !.cell = @ + 1,
                        !.bkg_apstats = notebook_stats_no_error(data, nb.bkg_aper)]
    /\ UNCHANGED <<data, error, mask, aperture, masks, phot, apstats, batch, call, sigclip>>

NextLocalBkg ==
    \/ CalcTotalError
    \/ AddBackground
    \/ \E position \in NotebookPositions : DefineCircAper(position)
    \/ CircApstats
    \/ DefineBkgAper
    \/ BkgApstats

SpecLocalBkg == InitLocalBkg /\ [][NextLocalBkg]_vars

\* =====================================================================
\* Properties
\* =====================================================================
\* The results present in the state, each with its method, subpixels and
\* apermask.
Computed == {r \in {masks, phot} : r.done}

\* The catalog is computed and its aperture overlaps the image.
HasStats == apstats.done /\ ~apstats.nan

\* The image pixels the catalog's call includes: not flagged in its mask.
StatsIncluded == {p \in Pixels : ~apstats.mask[p]}

\* The pixel centre p relative to the aperture centre, in 1/Scale pixel.
RelX(p) == Scale * p[1] - aperture.x
RelY(p) == Scale * p[2] - aperture.y

\* The point (X, Y)/m (X, Y numerators of a length in 1/Scale pixel over m)
\* lies strictly inside, or inside or on the boundary of, a shape of size
\* (a, b) centred at the origin.
OpenShape(shape, X, Y, m, a, b) ==
    CASE shape = "circle" -> X * X + Y * Y < m * m * a * a
      [] shape = "ellipse" -> b * b * X * X + a * a * Y * Y < m * m * a * a * b * b
      [] shape = "rectangle" -> 2 * Abs(X) < m * a /\ 2 * Abs(Y) < m * b

ClosedShape(shape, X, Y, m, a, b) ==
    CASE shape = "circle" -> X * X + Y * Y <= m * m * a * a
      [] shape = "ellipse" -> b * b * X * X + a * a * Y * Y <= m * m * a * a * b * b
      [] shape = "rectangle" -> 2 * Abs(X) <= m * a /\ 2 * Abs(Y) <= m * b

\* The point lies in the aperture's region without its outer boundary: strictly
\* inside the outer shape and, for an annulus, not strictly inside the inner
\* shape.
InAperture(X, Y, m) ==
    /\ OpenShape(aperture.shape, X, Y, m, aperture.a, aperture.b)
    /\ aperture.annulus =>
          ~OpenShape(aperture.shape, X, Y, m, aperture.a_in, aperture.b_in)

\* The point lies in the aperture's region or on its boundary.
InOrOnAperture(X, Y, m) ==
    /\ ClosedShape(aperture.shape, X, Y, m, aperture.a, aperture.b)
    /\ aperture.annulus =>
          ~OpenShape(aperture.shape, X, Y, m, aperture.a_in, aperture.b_in)

WeightAt(apermask, p) ==
    IF p \in DOMAIN apermask.data THEN apermask.data[p] ELSE 0

\* The image pixels the call of phot includes: not flagged in its mask.
Included == {p \in Pixels : ~phot.mask[p]}

\* phot is the result of a call whose aperture overlaps the image.
HasSum == phot.done /\ ~phot.nan

\* A pixel of the call's image with a fractional weight.
FractionalPixel(p) ==
    /\ 0 < WeightAt(phot.apermask, p)
    /\ WeightAt(phot.apermask, p) < phot.apermask.den

\* C3: masking exactly one pixel changes the aperture sum by exactly that
\* pixel's weight times its data value: the sum with the pixel masked equals
\* the sum of the same call with the pixel not masked, minus weight * data
\* of that pixel (sums and weights over the same denominator).
C3_MaskRemovesOnePixel ==
    HasSum =>
        \A p \in Pixels :
            phot.mask[p] =>
                phot.aperture_sum =
                    do_photometry(phot.data, phot.error,
                                  [phot.mask EXCEPT ![p] = FALSE], phot.use_error,
                                  phot.aperture, phot.method, phot.subpixels).aperture_sum
                    - WeightAt(phot.apermask, p) * phot.data[p]

\* The bad pixel (value 100) is masked and has a fractional weight in the
\* aperture.
C3_Witness ==
    /\ HasSum
    /\ \E p \in Pixels :
          phot.mask[p] /\ phot.data[p] = BadPixelValue /\ FractionalPixel(p)

\* C4: the aperture sum equals the sum over the included (not masked) pixels
\* of weight * data, for every mask, image and bad-pixel mask.
C4_SumIsWeightedSum ==
    HasSum =>
        phot.aperture_sum =
            SumOver(Included,
                    [p \in Pixels |-> WeightAt(phot.apermask, p) * phot.data[p]])

\* A call on the non-uniform image with a masked pixel inside the aperture and
\* a pixel of fractional weight, the aperture crossing the image edge.
C4_Witness ==
    /\ HasSum
    /\ phot.data # UniformData
    /\ \E p \in Pixels : phot.mask[p] /\ WeightAt(phot.apermask, p) > 0
    /\ \E p \in Included : FractionalPixel(p)
    /\ \E p \in DOMAIN phot.apermask.data : p \notin Pixels

UniformErrorOf(e) == \A p \in Pixels : phot.error[p] = e

\* The weighted area of the call's aperture: the sum of the weights of the
\* included pixels (a numerator over den).
WeightedArea == SumOver(Included, [p \in Pixels |-> WeightAt(phot.apermask, p)])

OuterAperture ==
    [aperture EXCEPT !.annulus = FALSE, !.a_in = 0, !.b_in = 0]
InnerAperture ==
    [aperture EXCEPT !.annulus = FALSE, !.a = aperture.a_in, !.b = aperture.b_in,
                     !.a_in = 0, !.b_in = 0]

\* C7: for an annulus every pixel's weight equals the weight the outer shape
\* gives the pixel minus the weight the inner shape gives it, each computed on
\* its own, and the difference lies in [0, 1].
C7_AnnulusIsDifference ==
    \A r \in Computed :
        aperture.annulus =>
            \A p \in DOMAIN r.apermask.data :
                /\ r.apermask.data[p] =
                      WeightAt(to_mask(OuterAperture, r.method, r.subpixels), p)
                      - WeightAt(to_mask(InnerAperture, r.method, r.subpixels), p)
                /\ 0 <= r.apermask.data[p]
                /\ r.apermask.data[p] <= r.apermask.den

\* An annulus mask with a pixel both shapes cover in part, the inner one less.
C7_Witness ==
    /\ masks.done /\ aperture.annulus
    /\ \E p \in DOMAIN masks.apermask.data :
          LET inner == WeightAt(to_mask(InnerAperture, masks.method, masks.subpixels), p)
              outer == WeightAt(to_mask(OuterAperture, masks.method, masks.subpixels), p)
          IN  0 < inner /\ inner < outer /\ outer < masks.apermask.den

\* The subpixel centres (i, j) of pixel p, of the n x n, that lie in the
\* aperture: centre i of a pixel is at p - 1/2 + (i + 1/2)/n.
SubpixelsInside(p, n) ==
    {ij \in (0 .. n - 1) \X (0 .. n - 1) :
        InAperture(2 * n * RelX(p) + Scale * (2 * ij[1] + 1 - n),
                   2 * n * RelY(p) + Scale * (2 * ij[2] + 1 - n), 2 * n)}

\* C8: under the subpixel method with subpixels = n, each pixel's weight is
\* the number of the pixel's n x n subpixel centres that lie inside the
\* aperture, divided by n^2.
C8_SubpixelFraction ==
    \A r \in Computed :
        r.method = "subpixel" =>
            /\ r.apermask.den = r.subpixels * r.subpixels
            /\ \A p \in DOMAIN r.apermask.data :
                  r.apermask.data[p] = Cardinality(SubpixelsInside(p, r.subpixels))

\* A subpixel mask (n >= 2) with a pixel of fractional weight and a pixel of
\* weight 1.
C8_Witness ==
    /\ masks.done /\ masks.method = "subpixel" /\ masks.subpixels >= 2
    /\ \E p, q \in DOMAIN masks.apermask.data :
          /\ 0 < masks.apermask.data[p]
          /\ masks.apermask.data[p] < masks.apermask.den
          /\ masks.apermask.data[q] = masks.apermask.den


\* The aperture_photometry call on the catalog's data, aperture, error and
\* mask, with method = the catalog's sum_method.
PhotOfStats ==
    do_photometry(apstats.data, apstats.error, apstats.mask, apstats.use_error,
                  apstats.aperture, apstats.method, apstats.subpixels)

StatsWithoutBkg ==
    ApertureStats(apstats.data, apstats.error, apstats.mask, apstats.use_error,
                  apstats.aperture, apstats.method, apstats.subpixels, 0,
                  apstats.sigma_clip)

ApertureAt(pos) == [aperture EXCEPT !.x = pos[1], !.y = pos[2]]

\* The call of aperture_photometry for the one position pos, with the
\* keywords of the call over many positions.
SinglePhot(pos) ==
    do_photometry(data, error, mask, TRUE, ApertureAt(pos),
                  batch.method, batch.subpixels)

\* The row holds the position pos and the sums of the call for pos alone.
RowIsFor(row, pos) ==
    /\ row.xcenter = pos[1] /\ row.ycenter = pos[2]
    /\ row.nan = SinglePhot(pos).nan
    /\ row.aperture_sum = SinglePhot(pos).aperture_sum
    /\ row.sum_var = SinglePhot(pos).sum_var
    /\ row.den = SinglePhot(pos).apermask.den

OutsideImage(pos) ==
    LET bb == bbox(ApertureAt(pos))
    IN  \/ bb.ixmax <= 0 \/ bb.ixmin >= ImgSize
        \/ bb.iymax <= 0 \/ bb.iymin >= ImgSize

Overlapping(pos) == ~OutsideImage(pos)
RowOverlapping(row) == ~OutsideImage(<<row.xcenter, row.ycenter>>)

\* The same call over the positions that overlap the image only.
BatchWithoutFailing ==
    run_batch(batch_begin(SelectSeq(batch.positions, Overlapping),
                          batch.method, batch.subpixels),
              data, error, mask, aperture)

\* C16: an aperture whose bounding box lies entirely outside the image does
\* not abort the call over many positions: the call fails for invalid keywords
\* only; in the finished table that aperture has a row, with nan sums, and
\* the rows of the other apertures hold, in order, the values of the table
\* made without the failing apertures.
C16_NoOverlapIsNanRow ==
    /\ batch.state = "failed" =>
          \/ batch.method \notin {"center", "subpixel", "exact"}
          \/ batch.method = "subpixel" /\ batch.subpixels <= 0
    /\ batch.state = "done" =>
          /\ Len(batch.rows) = Len(batch.positions)
          /\ \A k \in 1 .. Len(batch.rows) :
                /\ batch.rows[k].xcenter = batch.positions[k][1]
                /\ batch.rows[k].ycenter = batch.positions[k][2]
                /\ OutsideImage(batch.positions[k]) => batch.rows[k].nan
          /\ LET siblings == SelectSeq(batch.rows, RowOverlapping)
             IN  siblings # << >> =>
                    /\ Len(siblings) = Len(BatchWithoutFailing.rows)
                    /\ \A i \in 1 .. Len(siblings) :
                          [siblings[i] EXCEPT !.id = 0] =
                              [BatchWithoutFailing.rows[i] EXCEPT !.id = 0]

\* A finished table whose first aperture lies outside the image and whose
\* second has a sum.
C16_Witness ==
    /\ batch.state = "done"
    /\ Len(batch.rows) = 2
    /\ OutsideImage(batch.positions[1])
    /\ batch.rows[1].nan
    /\ ~batch.rows[2].nan /\ batch.rows[2].aperture_sum # 0

\* The shape parameters are valid: every radius, semi-axis, width and height
\* is strictly positive, and an annulus' inner sizes are smaller than its
\* outer ones.
ValidGeometry(ap) ==
    /\ ap.a > 0 /\ ap.b > 0
    /\ ap.annulus => /\ ap.a_in > 0 /\ ap.b_in > 0
                      /\ ap.a_in < ap.a /\ ap.b_in < ap.b

\* C17: a fatal configuration error is raised before any position is worked
\* on.  An invalid method or subpixels: a failed call has no row, and a call
\* with invalid keywords never has one.  Invalid shape parameters: the
\* constructor raised, no call over positions was started, and every call
\* that was started has an aperture of valid shape.
C17_ConfigErrorBeforeRows ==
    /\ (call.done /\ call.op = "aperture") => batch = NoBatch
    /\ batch # NoBatch =>
        /\ ValidGeometry(aperture)
        /\ batch.state = "failed" => batch.rows = << >>
        /\ (\/ batch.method \notin {"center", "subpixel", "exact"}
            \/ batch.method = "subpixel" /\ batch.subpixels <= 0)
              => batch.rows = << >> /\ batch.state # "done"

\* A call over two positions that failed for its keywords.
C17_Witness ==
    /\ batch.state = "failed"
    /\ batch.error # NoError
    /\ Len(batch.positions) = 2


SubpixelsMessage == "subpixels must be a strictly positive integer"

\* The keyword value is an integer >= 1.
PositiveInt(given) == given.kind = "int" /\ given.v >= 1

C20_ShapeMismatchRaises ==
    (call.done /\ call.op = "aperture_photometry") =>
        LET mismatch ==
                \/ call.error_shape \notin {<< >>, <<ImgSize, ImgSize>>}
                \/ call.mask_shape \notin {<< >>, <<ImgSize, ImgSize>>}
        IN  /\ mismatch => call.raised # NoError /\ ~phot.done
            /\ ~mismatch => call.raised = NoError /\ phot.done

\* A call with an error array of the data's shape and a mask with one column
\* more raised.
C20_Witness ==
    /\ call.done /\ call.op = "aperture_photometry"
    /\ call.error_shape = <<ImgSize, ImgSize>>
    /\ call.mask_shape = <<ImgSize, ImgSize + 1>>
    /\ call.raised # NoError /\ ~phot.done


\* The list call was made: phot holds its table.
HasList == phot.done /\ "list" \in DOMAIN phot

\* The cell of do_photometry's sum (or squared error) for one aperture.
CellOf(r, value) == [nan |-> r.nan, value |-> value, den |-> r.apermask.den]

\* The call of aperture_photometry for the aperture at (0-based) index N of
\* the list alone.
PhotOfIndex(N) ==
    do_photometry(phot.data, phot.error, phot.mask, phot.use_error,
                  phot.apertures[N + 1], phot.method, phot.subpixels)

\* C21: for a list of apertures the table has, for the aperture at index N of
\* the list (N from 0), the column aperture_sum_N and, when an error array is
\* given, the column aperture_sum_err_N, holding the results of that
\* aperture; there are no other sum columns, also not for a list of one.
C21_ColumnSuffixIsListIndex ==
    HasList =>
        /\ \A N \in 0 .. Len(phot.apertures) - 1 :
              /\ ("aperture_sum_" \o ToString(N)) \in DOMAIN phot.columns
              /\ phot.columns["aperture_sum_" \o ToString(N)] =
                    CellOf(PhotOfIndex(N), PhotOfIndex(N).aperture_sum)
              /\ phot.use_error =>
                    /\ ("aperture_sum_err_" \o ToString(N)) \in DOMAIN phot.columns
                    /\ phot.columns["aperture_sum_err_" \o ToString(N)] =
                          CellOf(PhotOfIndex(N), PhotOfIndex(N).sum_var)
        /\ Cardinality(DOMAIN phot.columns) =
              3 + (IF phot.use_error THEN 2 ELSE 1) * Len(phot.apertures)

\* A table of three apertures of different radii with different sums in the
\* columns _0, _1 and _2, and error columns.
C21_Witness ==
    /\ HasList /\ phot.use_error
    /\ Len(phot.apertures) = 3
    /\ phot.columns["aperture_sum_0"].value # phot.columns["aperture_sum_1"].value
    /\ phot.columns["aperture_sum_1"].value # phot.columns["aperture_sum_2"].value
    /\ phot.columns["aperture_sum_err_2"].value > 0


\* The catalog of the same call without a SigmaClip object, the pixels K
\* masked beside those of the call's mask.
StatsMasking(K) ==
    ApertureStats(apstats.data, apstats.error,
                  [p \in Pixels |-> apstats.mask[p] \/ p \in K],
                  apstats.use_error, apstats.aperture, apstats.method,
                  apstats.subpixels, apstats.local_bkg, NoSigmaClip)

\* The pixels the catalog's SigmaClip object clips for the sum-related
\* properties: it is run on the unweighted values, local background
\* subtracted, of the unmasked pixels of non-zero weight.
StatsClipped ==
    LET S0 == {p \in StatsIncluded : WeightAt(apstats.apermask, p) # 0}
    IN  sigma_clipped(S0, [p \in S0 |-> apstats.data[p] - apstats.local_bkg],
                      apstats.sigma_clip)

ClipRunning == sigclip.state \in {"running", "done"}

\* The values of the run's pixels outside the bounds of its last turn.
OutsideLastBounds ==
    {p \in sigclip.all :
        (2 * data[p] - sigclip.bounds.median2) * (2 * data[p] - sigclip.bounds.median2)
            * sigclip.bounds.n * sigclip.bounds.n
        > 4 * sigclip.sigma * sigclip.sigma * sigclip.bounds.var_n2}

\* What holds in every state of a run: it has taken no more turns than
\* maxiters; it is done only after a turn that excluded nothing or after
\* maxiters turns; the bounds of its last turn are those of the plain
\* (unweighted) pixel values the turn started from, and the pixels it keeps
\* are those, of the pixels it had, inside these bounds.
ClipRunInvariant ==
    ClipRunning =>
        /\ sigclip.iteration <= sigclip.maxiters
        /\ sigclip.state = "done" =>
              sigclip.nchanged = 0 \/ sigclip.iteration = sigclip.maxiters
        /\ sigclip.filtered \subseteq sigclip.all
        /\ sigclip.iteration >= 1 =>
              /\ sigclip.bounds.n = Cardinality(sigclip.filtered) + sigclip.nchanged
              /\ sigclip.filtered \cap OutsideLastBounds = {}
              /\ sigclip.filtered # {}
        /\ sigclip.iteration = 1 =>
              /\ sigclip.bounds.n = Cardinality(sigclip.all)
              /\ sigclip.bounds.median2 =
                    median2(sigclip.all, [p \in sigclip.all |-> data[p]])
              /\ sigclip.filtered = sigclip.all \ OutsideLastBounds

\* A turn is taken only while the turn before excluded a pixel and fewer than
\* maxiters turns have been taken; otherwise the run ends.
ClipRunStops ==
    (sigclip.state = "running"
     /\ (sigclip.nchanged = 0 \/ sigclip.iteration >= sigclip.maxiters))
        => (sigclip'.state = "done" /\ sigclip'.iteration = sigclip.iteration)

\* C23: the sigma-clipping iteration always terminates; it stops as soon as a
\* turn excludes no further pixel or when maxiters turns have been taken,
\* whichever comes first; it never takes more than maxiters turns; and the
\* clip bounds are computed from the unweighted pixel values.
C23_SigmaClipTerminates ==
    /\ []ClipRunInvariant
    /\ [][ClipRunStops]_vars
    /\ (sigclip.state = "running") ~> (sigclip.state = "done")

\* A run that was stopped by maxiters = 2 while its second turn still
\* excluded a pixel.
C23_Witness ==
    /\ sigclip.state = "done"
    /\ sigclip.maxiters = 2 /\ sigclip.iteration = 2
    /\ sigclip.nchanged > 0

\* The sum_method and subpixels a catalog may be made with.
StatsKeywords == {<<"center", 1>>} \cup {<<"subpixel", n>> : n \in 1 .. MaxSubpixels}

\* The unmasked image pixels whose centre lies in the catalog's aperture: the
\* pixels of weight 1 under the center method.
CenterIncluded == {p \in StatsIncluded : InAperture(RelX(p), RelY(p), 1)}

\* The value of pixel p the catalog's properties are computed from.
StatsValue(p) == apstats.data[p] - apstats.local_bkg

\* The statistics st are those of the plain values of the pixels S.
CenterStatisticsAre(st, S) ==
    /\ st.mean.n = Cardinality(S)
    /\ st.mean.sum = SumOver(S, [p \in Pixels |-> StatsValue(p)])
    /\ \A p \in S : st.min <= StatsValue(p) /\ StatsValue(p) <= st.max
    /\ \E p, q \in S : st.min = StatsValue(p) /\ st.max = StatsValue(q)
    /\ Cardinality({p \in S : 2 * StatsValue(p) <= st.median}) * 2 >= Cardinality(S)
    /\ Cardinality({p \in S : 2 * StatsValue(p) >= st.median}) * 2 >= Cardinality(S)
    /\ st.centroid.m00 = st.mean.sum
    /\ st.centroid.m10 = SumOver(S, [p \in Pixels |-> p[1] * StatsValue(p)])
    /\ st.centroid.m01 = SumOver(S, [p \in Pixels |-> p[2] * StatsValue(p)])

Surroundings ==
    LET bb == masks.apermask.bbox
    IN  (Min(0, bb.ixmin) - 1 .. Max(ImgSize, bb.ixmax))
        \X (Min(0, bb.iymin) - 1 .. Max(ImgSize, bb.iymax))

\* The weight of pixel p under the mask's method, counted from the geometry:
\* the number of the pixel's subpixel centres that lie in the aperture.
GeometricWeight(p) ==
    Cardinality(SubpixelsInside(p, IF masks.method = "center" THEN 1
                                   ELSE masks.subpixels))

\* Every pixel outside the mask's bounding box has weight 0.
BoxHoldsAllWeight ==
    \A p \in Surroundings \ DOMAIN masks.apermask.data : GeometricWeight(p) = 0

Returned == {r \in {phot, apstats} : r.done}

\* Every call was given the arrays as they are now, and every result the
\* session holds is the result the same call gives now.
ArraysAsGiven ==
    /\ \A r \in Returned : r.data = data /\ r.error = error /\ r.mask = mask
    /\ masks.done =>
          masks.apermask = to_mask(aperture, masks.method, masks.subpixels)
    /\ phot.done =>
          phot = do_photometry(data, error, mask, phot.use_error, aperture,
                               phot.method, phot.subpixels)
    /\ apstats.done =>
          /\ apstats = ApertureStats(data, error, mask, apstats.use_error, aperture,
                                     apstats.method, apstats.subpixels,
                                     apstats.local_bkg, apstats.sigma_clip)
          /\ center_pixels(apstats) # {} =>
                center_statistics(apstats) =
                   center_statistics([apstats EXCEPT !.data = data, !.mask = mask])
    /\ batch # NoBatch =>
          batch = run_batch(batch_begin(batch.positions, batch.method,
                                        batch.subpixels),
                            data, error, mask, aperture)

\* A step of a session that has made a call leaves the three arrays as they
\* are, and leaves every result it does not return itself as it is.
CallKeepsArrays ==
    (masks.done \/ phot.done \/ apstats.done \/ batch # NoBatch) =>
        /\ data' = data /\ error' = error /\ mask' = mask
        /\ masks.done => masks' = masks
        /\ phot.done => phot' = phot
        /\ batch # NoBatch => batch' = batch
        /\ (apstats.done /\ apstats'.local_bkg = apstats.local_bkg) =>
              apstats' = apstats

HasBothApertures == nb.circ_aper # NoAperture /\ nb.bkg_aper # NoAperture

\* The pixels around the photometry aperture: its bounding box and a margin
\* of one pixel.
AroundCircAper ==
    LET bb == bbox(nb.circ_aper)
    IN  (bb.ixmin - 1 .. bb.ixmax) \X (bb.iymin - 1 .. bb.iymax)

\* The weight (times n * n) the overlap grid with n subpixels gives pixel p
\* for the aperture ap.
GridWeight(ap, p, n) ==
    LET px == Scale * p[1] - ap.x
        py == Scale * p[2] - ap.y
    IN  shape_overlap(ap.shape, px, py, ap.a, ap.b, n)
        - (IF ap.annulus THEN shape_overlap(ap.shape, px, py, ap.a_in, ap.b_in, n)
           ELSE 0)

\* The squared distance, in 1/(2 * Scale) pixel, from the centre of ap to the
\* nearest and to the farthest point of the square of pixel p.
NearestSq(ap, p) ==
    LET dx == Max(0, 2 * Abs(Scale * p[1] - ap.x) - Scale)
        dy == Max(0, 2 * Abs(Scale * p[2] - ap.y) - Scale)
    IN  dx * dx + dy * dy

FarthestSq(ap, p) ==
    LET dx == 2 * Abs(Scale * p[1] - ap.x) + Scale
        dy == 2 * Abs(Scale * p[2] - ap.y) + Scale
    IN  dx * dx + dy * dy

\* C29: the photometry aperture (circle, r = 5.0) and the background annulus
\* at the same centre (r_in = 10.0, r_out = 15.0) share no pixel: a pixel of
\* non-zero weight in the circle has weight 0 in the annulus, with the center
\* method and with every subpixel grid, in the two catalogs' masks, and for
\* any overlap method because every pixel the circle touches lies wholly
\* inside the annulus' inner circle.
C29_ApertureAndAnnulusDisjoint ==
    HasBothApertures =>
        /\ nb.bkg_aper.x = nb.circ_aper.x /\ nb.bkg_aper.y = nb.circ_aper.y
        /\ \A p \in AroundCircAper :
              /\ \A n \in 1 .. MaxSubpixels :
                    GridWeight(nb.circ_aper, p, n) > 0 =>
                        \A k \in 1 .. MaxSubpixels : GridWeight(nb.bkg_aper, p, k) = 0
              /\ NearestSq(nb.circ_aper, p) <= 4 * nb.circ_aper.a * nb.circ_aper.a =>
                    FarthestSq(nb.bkg_aper, p) < 4 * nb.bkg_aper.a_in * nb.bkg_aper.a_in
        /\ nb.bkg_apstats.done =>
              \A p \in DOMAIN nb.circ_apstats.apermask.data :
                  nb.circ_apstats.apermask.data[p] > 0 =>
                      /\ p \in DOMAIN nb.bkg_apstats.apermask.data
                      /\ nb.bkg_apstats.apermask.data[p] = 0

\* Both catalogs are made, at a position off the pixel lattice; the circle's
\* mask has a pixel of weight 1 and one of fractional weight, the annulus'
\* mask has pixels of non-zero weight, and every image pixel is summed in the
\* photometry aperture.
C29_Witness ==
    /\ nb.state = "open" /\ nb.bkg_apstats.done
    /\ nb.circ_aper.x # Scale /\ nb.circ_aper.y # Scale
    /\ \E p, q \in DOMAIN nb.circ_apstats.apermask.data :
          /\ nb.circ_apstats.apermask.data[p] = nb.circ_apstats.apermask.den
          /\ 0 < nb.circ_apstats.apermask.data[q]
          /\ nb.circ_apstats.apermask.data[q] < nb.circ_apstats.apermask.den
    /\ \E p \in DOMAIN nb.bkg_apstats.apermask.data :
          nb.bkg_apstats.apermask.data[p] > 0
    /\ \A p \in Pixels : nb.circ_apstats.apermask.data[p] > 0


\* The background has been added to the data array.
BackgroundAdded == nb.state = "open" /\ data # nb.hdu_data

\* The total error array has been computed.
HasTotalError == nb.state = "open" /\ nb.total_error # <<>>

\* The statistics calls made so far, each with the data array it was given.
StatsCalls == {c \in {nb.circ_apstats, nb.bkg_apstats} : c.done}

\* The total error is computed from the image as it was read, before the
\* background is added; and every statistics call is given the data with the
\* background added, the one with an error the total error of the data
\* without it, smaller at every pixel than the total error of the data it is
\* given.
ErrorBeforeBackground ==
    /\ BackgroundAdded =>
          /\ HasTotalError
          /\ data = add_background(nb.hdu_data)
    /\ HasTotalError =>
          /\ nb.error_from = nb.hdu_data
          /\ nb.total_error = calc_total_error(nb.hdu_data, error, nb.eff_gain)
    /\ \A c \in StatsCalls :
          /\ BackgroundAdded /\ HasTotalError
          /\ c.data = add_background(nb.hdu_data)
    /\ nb.state = "open" /\ nb.circ_apstats.done =>
          /\ nb.circ_apstats.error = nb.total_error
          /\ \A p \in Pixels :
                /\ nb.circ_apstats.error[p] <
                      calc_total_error(nb.circ_apstats.data, error, nb.eff_gain)[p]
                /\ nb.circ_apstats.error[p] =
                      nb.eff_gain * error[p] * error[p]
                         + DataUnit * Max(nb.circ_apstats.data[p] - Background, 0)

\* Once computed, the total error array is left as it is, by the in-place
\* addition of the background and by every later cell.
TotalErrorKept == HasTotalError => nb'.total_error = nb.total_error

\* C30: in the local-background notebook the total error is computed from the
\* data before the background of 7.2 is added to the data in place, and it is
\* never computed again: every later statistics call is given the data with
\* the background and a total error without the background's Poisson term.
C30_TotalErrorPredatesBackground ==
    /\ []ErrorBeforeBackground
    /\ [][TotalErrorKept]_vars

\* Both statistics calls are made, on an image with a pixel whose value was
\* not positive as read and is positive with the background, the photometry
\* catalog having a sum and a sum error.
C30_Witness ==
    /\ nb.state = "open" /\ nb.circ_apstats.done /\ nb.bkg_apstats.done
    /\ nb.circ_apstats.sum > 0 /\ nb.circ_apstats.sum_var > 0
    /\ \E p \in Pixels : nb.hdu_data[p] <= 0 /\ 0 < data[p]

=============================================================================
